---- MODULE Spec2Model ----
(***************************************************************************)
(* Model of src/git/delete-stale-and-merged-branches.ts: the pipeline      *)
(* prune -> list -> resolve dates -> classify -> confirm -> delete.        *)
(*                                                                         *)
(* Text (shell output, branch names) is a sequence of one-character        *)
(* strings, so that splitting, trimming, regular-expression matching and   *)
(* Number() are modelled by what they do.                                  *)
(*                                                                         *)
(* Time: in the pipeline specification (Spec) a Date is its time value in  *)
(* whole days since the epoch (the real values, in milliseconds, exceed    *)
(* TLC's integers); in the date-text specification (SpecDate) it is in     *)
(* milliseconds.                                                           *)
(***************************************************************************)
EXTENDS Integers, Sequences, FiniteSets, TLC

VARIABLES
    pc,                       \* position of deleteStaleAndMergedBranches
    remoteBranchNames,        \* line 33
    mergedBranchNames,        \* line 34
    remoteTasks,              \* the async callbacks of getBranchDates, pass 1
    remoteBranchesWithDates,  \* line 36: Promise.all's values, pass 1
    mergedTasks,              \* the async callbacks of getBranchDates, pass 2
    mergedValues,             \* line 45: Promise.all's values, pass 2
    staleBranchesToDelete,    \* line 38
    mergedBranchesToDelete,   \* line 48
    userResponse,             \* line 53
    deleteTasks,              \* the async callbacks of deleteBranches
    issued,                   \* shell commands started so far
    remoteDeleted,            \* branches whose deletion took effect on origin
    promptShown,              \* askQuestion was called
    doneLogged,               \* console.info('\ndone.') ran
    exitCode,                 \* process exit code; -1 while running
    raced,                    \* history: a lookup finished before an earlier one
    sawProtected,             \* history: a listing named a protected branch
    fn, arg, ret              \* the pure-function specifications

pipeVars == <<pc, remoteBranchNames, mergedBranchNames, remoteTasks,
              remoteBranchesWithDates, mergedTasks, mergedValues,
              staleBranchesToDelete, mergedBranchesToDelete, userResponse,
              deleteTasks, issued, remoteDeleted, promptShown, doneLogged,
              exitCode, raced, sawProtected>>
pureVars == <<fn, arg, ret>>
vars == <<pipeVars, pureVars>>

(***************************************************************************)
(* Bounds                                                                  *)
(***************************************************************************)
MaxListed == 2      \* lines of a branch listing, pipeline
MaxLines == 2       \* lines of a branch listing, lister specification
MaxRecs == 3        \* records handed to filterToBranchesModifiedSinceDate
MaxDate == 3        \* commit dates 1..MaxDate, thresholds 1..MaxDate+1
MaxTextLen == 3     \* characters of a date query's output

(***************************************************************************)
(* Text helpers                                                            *)
(***************************************************************************)
NL == "\n"
WhiteSpaceChars == {" ", "\t", "\n", "\r"}
LineTerminators == {"\n", "\r"}
DigitChars == {"0", "1", "2", "3", "4", "5", "6", "7", "8", "9"}
WordChars == DigitChars \cup
    {"a", "b", "c", "d", "e", "f", "g", "h", "i", "m", "n", "o", "p", "r",
     "s", "t", "u", "A", "D", "E", "H", "_"}

\* String.prototype.split('\n')
RECURSIVE Split(_)
Split(text) ==
    IF \A i \in DOMAIN text : text[i] # NL
    THEN <<text>>
    ELSE LET p == CHOOSE i \in DOMAIN text :
                      text[i] = NL /\ \A j \in 1..(i - 1) : text[j] # NL
         IN <<SubSeq(text, 1, p - 1)>> \o Split(SubSeq(text, p + 1, Len(text)))

\* String.prototype.trim()
RECURSIVE TrimStart(_)
TrimStart(text) ==
    IF text # <<>> /\ Head(text) \in WhiteSpaceChars
    THEN TrimStart(Tail(text)) ELSE text
RECURSIVE TrimEnd(_)
TrimEnd(text) ==
    IF text # <<>> /\ text[Len(text)] \in WhiteSpaceChars
    THEN TrimEnd(SubSeq(text, 1, Len(text) - 1)) ELSE text
Trim(text) == TrimEnd(TrimStart(text))

\* augment-vir's isTruthy on a string
isTruthy(text) == text # <<>>

\* Length of the longest prefix of text whose characters are all in chars.
RECURSIVE Run(_, _)
Run(text, chars) ==
    IF text # <<>> /\ Head(text) \in chars THEN 1 + Run(Tail(text), chars) ELSE 0

\* The outcome of a call: a value, or a thrown error.
Threw == [threw |-> TRUE]
Value(v) == [threw |-> FALSE, value |-> v]

(***************************************************************************)
(* Branch names                                                            *)
(***************************************************************************)
main == <<"m", "a", "i", "n">>
master == <<"m", "a", "s", "t", "e", "r">>
staging == <<"s", "t", "a", "g", "i", "n", "g">>
production == <<"p", "r", "o", "d", "u", "c", "t", "i", "o", "n">>
ignoreTheseBranches == <<main, master, staging, production>>

fa == <<"f", "a">>
fb == <<"f", "b">>

\* Mutant: the negation is lost, so only the protected names are kept.
NotIgnoredInverted(branchName) ==
    \E i \in DOMAIN ignoreTheseBranches : ignoreTheseBranches[i] = branchName
\* !ignoreTheseBranches.includes(branchName)
NotIgnored(branchName) ==
    ~ \E i \in DOMAIN ignoreTheseBranches : ignoreTheseBranches[i] = branchName

filterOutKeyBranchNames(branchNames) == SelectSeq(branchNames, NotIgnored)

(***************************************************************************)
(* Branch Lister                                                           *)
(***************************************************************************)
RefsHeads == <<"r", "e", "f", "s", "/", "h", "e", "a", "d", "s", "/">>

\* (.+)$ : one or more characters, none a line terminator, up to the end
DotPlus(text) == text # <<>> /\ \A i \in DOMAIN text : text[i] \notin LineTerminators

\* safeMatch(line, /^[\d\w]+\s+refs\/heads\/(.+)$/)[1]; <<>> stands for undefined
RemoteBranchOf(line) ==
    LET w == Run(line, WordChars)
        s == Run(SubSeq(line, w + 1, Len(line)), WhiteSpaceChars)
        k == w + s + Len(RefsHeads)
    IN IF /\ w >= 1
          /\ s >= 1
          /\ Len(line) >= k
          /\ SubSeq(line, w + s + 1, k) = RefsHeads
          /\ DotPlus(SubSeq(line, k + 1, Len(line)))
       THEN SubSeq(line, k + 1, Len(line))
       ELSE <<>>

\* safeMatch(line, /^\s*[^\/]+\/(.+)$/)[1]; <<>> stands for undefined
MergedBranchOf(line) ==
    LET p == Run(line, {line[i] : i \in DOMAIN line} \ {"/"})
    IN IF /\ p >= 1
          /\ p < Len(line)
          /\ DotPlus(SubSeq(line, p + 2, Len(line)))
       THEN SubSeq(line, p + 2, Len(line))
       ELSE <<>>

\* The line's branch name under the regular expression of the given lister.
BranchOf(kind, line) ==
    IF kind = "remote" THEN RemoteBranchOf(line) ELSE MergedBranchOf(line)

\* Mutant: a line that does not match is skipped instead of thrown on.
RECURSIVE MapOrSkip(_, _)
MapOrSkip(kind, lines) ==
    IF lines = <<>> THEN Value(<<>>)
    ELSE LET branchName == BranchOf(kind, Head(lines))
             rest == MapOrSkip(kind, Tail(lines))
         IN IF ~ isTruthy(branchName) THEN rest
            ELSE Value(<<branchName>> \o rest.value)
\* lines.map((line) => { ...; if (!branchName) throw ...; return branchName })
RECURSIVE MapOrThrow(_, _)
MapOrThrow(kind, lines) ==
    IF lines = <<>> THEN Value(<<>>)
    ELSE LET branchName == BranchOf(kind, Head(lines))
             rest == MapOrThrow(kind, Tail(lines))
         IN IF ~ isTruthy(branchName) \/ rest.threw THEN Threw
            ELSE Value(<<branchName>> \o rest.value)

\* The parsing both listers share: split, drop empty lines, map, drop empty names.
ParseListing(kind, stdout) ==
    LET mapped == MapOrThrow(kind, SelectSeq(Split(stdout), isTruthy))
    IN IF mapped.threw THEN Threw ELSE Value(SelectSeq(mapped.value, isTruthy))

\* run: [ok |-> the command exited 0, stdout |-> its output]; rejectOnError
getAllMergedRemoteBranches(run) ==
    IF ~ run.ok THEN Threw ELSE ParseListing("merged", run.stdout)

getAllRemoteBranches(run) ==
    IF ~ run.ok THEN Threw ELSE ParseListing("remote", run.stdout)

(***************************************************************************)
(* Stale/Merged Classifier                                                 *)
(* A BranchNameWithDate is [name, lastCommitDate], lastCommitDate being    *)
(* Number(date): getBranchDates lets no invalid Date into a record.        *)
(***************************************************************************)
\* Mutant: the comparison admits a commit date equal to the threshold.
IsOlderOrEqual(modifiedDate, gitBranch) == modifiedDate >= gitBranch.lastCommitDate
\* Number(modifiedDate) > Number(gitBranch.lastCommitDate)
IsOlder(modifiedDate, gitBranch) == modifiedDate > gitBranch.lastCommitDate

\* Mutant: the comparator's operands are swapped (newest first).
CompareReversed(a, b) == b.lastCommitDate - a.lastCommitDate
\* (a, b) => Number(a.lastCommitDate) - Number(b.lastCommitDate)
Compare(a, b) == a.lastCommitDate - b.lastCommitDate

\* Array.prototype.sort: stable (ECMAScript 2019), here by insertion.
RECURSIVE Insert(_, _)
Insert(x, sorted) ==
    IF sorted = <<>> THEN <<x>>
    ELSE IF Compare(x, Head(sorted)) < 0 THEN <<x>> \o sorted
    ELSE <<Head(sorted)>> \o Insert(x, Tail(sorted))
RECURSIVE Sort(_)
Sort(seq) ==
    IF seq = <<>> THEN <<>>
    ELSE Insert(seq[Len(seq)], Sort(SubSeq(seq, 1, Len(seq) - 1)))

filterToBranchesModifiedSinceDate(branchesWithDates, modifiedDate) ==
    LET Keep(gitBranch) == IsOlder(modifiedDate, gitBranch)
    IN Sort(SelectSeq(branchesWithDates, Keep))

(***************************************************************************)
(* Commit-Date Resolver                                                    *)
(* A Number is [kind, milli]: kind "nan", "inf" or "fin", milli its value  *)
(* times 1000 (the digits past the third decimal are cut, and no bounded   *)
(* text has them). A Date is [valid, ms].                                  *)
(***************************************************************************)
Infinity == <<"I", "n", "f", "i", "n", "i", "t", "y">>
NumNaN == [kind |-> "nan", milli |-> 0]
NumInf(sign) == [kind |-> "inf", milli |-> sign]
NumFin(m) == [kind |-> "fin", milli |-> m]

DigitVal(c) == CHOOSE n \in 0..9 : <<"0", "1", "2", "3", "4", "5", "6", "7", "8", "9">>[n + 1] = c
RECURSIVE Dec(_)
Dec(digits) ==
    IF digits = <<>> THEN 0
    ELSE 10 * Dec(SubSeq(digits, 1, Len(digits) - 1)) + DigitVal(digits[Len(digits)])
AllDigits(text) == \A i \in DOMAIN text : text[i] \in DigitChars

\* Number(text) for text without exponent or radix prefix:
\* StrWhiteSpace? [+-]? (Infinity | digits | digits. | digits.digits | .digits)
StringToNumber(text) ==
    LET t == Trim(text)
        signed == t # <<>> /\ Head(t) \in {"-", "+"}
        sign == IF t # <<>> /\ Head(t) = "-" THEN -1 ELSE 1
        u == IF signed THEN Tail(t) ELSE t
        i == Run(u, DigitChars)
        whole == SubSeq(u, 1, i)
        frac == SubSeq(u, i + 2, Len(u))
        frac3 == SubSeq(frac \o <<"0", "0", "0">>, 1, 3)
    IN IF t = <<>> THEN NumFin(0)
       ELSE IF u = Infinity THEN NumInf(sign)
       ELSE IF u # <<>> /\ i = Len(u) THEN NumFin(sign * Dec(whole) * 1000)
       ELSE IF /\ i < Len(u)
               /\ u[i + 1] = "."
               /\ AllDigits(frac)
               /\ (i >= 1 \/ frac # <<>>)
            THEN NumFin(sign * (Dec(whole) * 1000 + Dec(frac3)))
       ELSE NumNaN

\* new Date(numericTimestamp * 1000)
NewDate(num) ==
    IF num.kind = "fin" THEN [valid |-> TRUE, ms |-> num.milli]
    ELSE [valid |-> FALSE, ms |-> 0]

\* isNaN(numericTimestamp)
NotNumeric(num) == num.kind = "nan"

\* fetch, show: [ok, stdout], the two commands' runs (rejectOnError)
getLastCommitDateOfBranch(fetch, show) ==
    IF ~ fetch.ok THEN Threw
    ELSE IF ~ show.ok THEN Threw
    ELSE LET numericTimestamp == StringToNumber(Trim(show.stdout))
         IN IF NotNumeric(numericTimestamp) THEN Threw
            ELSE Value(NewDate(numericTimestamp))

\* Mutant: the zero test is lost.
DateRejectedNever(lastCommitDate) == FALSE
\* !lastCommitDate || !Number(lastCommitDate): a Date object is truthy,
\* Number of it is its time value, NaN when invalid
DateRejected(lastCommitDate) == ~ lastCommitDate.valid \/ lastCommitDate.ms = 0

\* The async callback of getBranchDates, given the resolver's outcome.
BranchDate(branchName, resolved) ==
    IF resolved.threw THEN Threw
    ELSE IF DateRejected(resolved.value) THEN Threw
    ELSE Value([name |-> branchName, lastCommitDate |-> resolved.value.ms])

(***************************************************************************)
(* The state before deleteStaleAndMergedBranches is called.                *)
(***************************************************************************)
Undefined == <<"undefined">>    \* userResponse before askQuestion returns

PipeInit ==
    /\ remoteBranchNames = <<>>
    /\ mergedBranchNames = <<>>
    /\ remoteTasks = <<>>
    /\ remoteBranchesWithDates = <<>>
    /\ mergedTasks = <<>>
    /\ mergedValues = <<>>
    /\ staleBranchesToDelete = <<>>
    /\ mergedBranchesToDelete = <<>>
    /\ userResponse = Undefined
    /\ deleteTasks = <<>>
    /\ issued = {}
    /\ remoteDeleted = {}
    /\ promptShown = FALSE
    /\ doneLogged = FALSE
    /\ exitCode = -1
    /\ raced = FALSE
    /\ sawProtected = FALSE

(***************************************************************************)
(* Specification of the Branch Lister's two functions on bounded output.   *)
(***************************************************************************)
origin == <<"o", "r", "i", "g", "i", "n", "/">>
hash == <<"a", "1">>
RemoteLine(branchName) == hash \o <<"\t">> \o RefsHeads \o branchName
MergedLine(branchName) == <<" ", " ">> \o origin \o branchName
HeadLine == MergedLine(<<"H", "E", "A", "D", " ", "-", ">", " ">> \o origin \o main)
TagLine == hash \o <<"\t", "r", "e", "f", "s", "/", "t", "a", "g", "s", "/">> \o fa

LinePool ==
    {RemoteLine(fa), RemoteLine(main), MergedLine(fa), HeadLine, TagLine,
     fa, <<>>, MergedLine(<<>>)}

\* Every output of at most n lines of pool, each ended by a newline.
RECURSIVE Outputs(_, _)
Outputs(pool, n) ==
    IF n = 0 THEN {<<>>}
    ELSE LET shorter == Outputs(pool, n - 1)
         IN shorter \cup {o \o l \o <<NL>> : o \in shorter, l \in pool}

InitLister ==
    /\ PipeInit
    /\ pc = "idle"
    /\ fn = "none"
    /\ ret = <<>>
    /\ \E kind \in {"remote", "merged"}, ok \in BOOLEAN,
          stdout \in Outputs(LinePool, MaxLines) :
          arg = [kind |-> kind, run |-> [ok |-> ok, stdout |-> stdout]]

CallGetAllRemoteBranches ==
    /\ fn = "none"
    /\ arg.kind = "remote"
    /\ fn' = "getAllRemoteBranches"
    /\ ret' = getAllRemoteBranches(arg.run)
    /\ UNCHANGED <<arg, pipeVars>>

CallGetAllMergedRemoteBranches ==
    /\ fn = "none"
    /\ arg.kind = "merged"
    /\ fn' = "getAllMergedRemoteBranches"
    /\ ret' = getAllMergedRemoteBranches(arg.run)
    /\ UNCHANGED <<arg, pipeVars>>

NextLister == CallGetAllRemoteBranches \/ CallGetAllMergedRemoteBranches
SpecLister == InitLister /\ [][NextLister]_vars

(***************************************************************************)
(* Specification of filterToBranchesModifiedSinceDate on bounded input.    *)
(***************************************************************************)
B1 == <<"B", "1">>
B2 == <<"B", "2">>
B3 == <<"B", "3">>
FilterRecords == [name : {B1, B2, B3}, lastCommitDate : 1..MaxDate]

RECURSIVE SeqsUpTo(_, _)
SeqsUpTo(S, n) ==
    IF n = 0 THEN {<<>>}
    ELSE LET shorter == SeqsUpTo(S, n - 1)
         IN shorter \cup {Append(q, x) : q \in shorter, x \in S}

InitFilter ==
    /\ PipeInit
    /\ pc = "idle"
    /\ fn = "none"
    /\ ret = <<>>
    /\ \E branches \in SeqsUpTo(FilterRecords, MaxRecs),
          modifiedDate \in 1..(MaxDate + 1) :
          arg = [branchesWithDates |-> branches, modifiedDate |-> modifiedDate]

CallFilter ==
    /\ fn = "none"
    /\ fn' = "filterToBranchesModifiedSinceDate"
    /\ ret' = filterToBranchesModifiedSinceDate(arg.branchesWithDates, arg.modifiedDate)
    /\ UNCHANGED <<arg, pipeVars>>

NextFilter == CallFilter
SpecFilter == InitFilter /\ [][NextFilter]_vars

(***************************************************************************)
(* Specification of the Commit-Date Resolver on bounded output text.       *)
(***************************************************************************)
DateAlphabet == {"0", "1", "-", ".", "a", " ", NL}
DateTexts == SeqsUpTo(DateAlphabet, MaxTextLen) \cup {Infinity, <<"-">> \o Infinity}
Ran(ok, stdout) == [ok |-> ok, stdout |-> stdout]

InitDate ==
    /\ PipeInit
    /\ pc = "idle"
    /\ fn = "none"
    /\ ret = <<>>
    /\ \/ \E text \in DateTexts :
             arg = [branchName |-> fa, fetch |-> Ran(TRUE, <<>>), show |-> Ran(TRUE, text)]
       \/ arg = [branchName |-> fa, fetch |-> Ran(FALSE, <<>>), show |-> Ran(TRUE, <<"1">>)]
       \/ arg = [branchName |-> fa, fetch |-> Ran(TRUE, <<>>), show |-> Ran(FALSE, <<>>)]

CallGetLastCommitDateOfBranch ==
    /\ fn = "none"
    /\ fn' = "getLastCommitDateOfBranch"
    /\ ret' = getLastCommitDateOfBranch(arg.fetch, arg.show)
    /\ UNCHANGED <<arg, pipeVars>>

\* The rest of the callback of getBranchDates, after the await of line 118.
CallBranchDate ==
    /\ fn = "getLastCommitDateOfBranch"
    /\ fn' = "getBranchDates"
    /\ ret' = BranchDate(arg.branchName, ret)
    /\ UNCHANGED <<arg, pipeVars>>

NextDate == CallGetLastCommitDateOfBranch \/ CallBranchDate
SpecDate == InitDate /\ [][NextDate]_vars

(***************************************************************************)
(* The pipeline: deleteStaleAndMergedBranches and the top-level catch.     *)
(* Dates are in days here.                                                 *)
(***************************************************************************)
Now == 100                  \* Date.now() when the module is loaded
staleBranchAge == 90        \* 3 * month
mergedBranchAge == 14       \* 14 * day
staleBranchDate == Now - staleBranchAge
mergedBranchDate == Now - mergedBranchAge

\* What a date query can yield: older than the stale threshold, equal to
\* it, and newer than both thresholds.
CommitDays == {staleBranchDate - 1, staleBranchDate, Now - 1}
ResolverOutcomes ==
    {Threw, Value([valid |-> FALSE, ms |-> 0]), Value([valid |-> TRUE, ms |-> 0])}
        \cup {Value([valid |-> TRUE, ms |-> d]) : d \in CommitDays}

RemotePool == {RemoteLine(main), RemoteLine(fa), RemoteLine(fb), fa}
MergedPool == {MergedLine(main), MergedLine(fa), fa}
RemoteRuns == {Ran(FALSE, <<>>)} \cup {Ran(TRUE, o) : o \in Outputs(RemotePool, MaxListed)}
MergedRuns == {Ran(FALSE, <<>>)} \cup {Ran(TRUE, o) : o \in Outputs(MergedPool, MaxListed)}

yes == <<"y", "e", "s">>
Responses == {yes, <<>>, <<"n", "o">>, <<"Y", "e", "s">>, <<" ", "y", "e", "s">>}

\* Mutant: the response is trimmed before it is compared.
AcceptsTrimmed(response) == Trim(response) = yes
\* userResponse === 'yes'
Accepts(response) == response = yes

\* .catch((error) => { console.error(error); process.exit(1); })
CatchExitCode == 1

Names(branches) == {branches[i].name : i \in DOMAIN branches}

\* Mutant: nothing is excluded from the merged candidates.
NotStaleAlways(staleBranchNames, branch) == TRUE
\* (branch) => !staleBranchNames.has(branch.name)
NotStale(staleBranchNames, branch) == branch.name \notin staleBranchNames

\* lines 45-51, given the values of the second getBranchDates
MergedToDelete(stale, values) ==
    LET staleBranchNames == Names(stale)
        Keep(branch) == NotStale(staleBranchNames, branch)
    IN filterToBranchesModifiedSinceDate(SelectSeq(values, Keep), mergedBranchDate)

\* The callbacks of getBranchDates right after branchNames.map: each has
\* started its git fetch. date is the callback's lastCommitDate.
NewTasks(branchNames) == [i \in DOMAIN branchNames |-> [at |-> "fetch", date |-> 0]]
\* Promise.all's array of values; an unsettled slot holds Pending.
Pending == [name |-> <<>>, lastCommitDate |-> 0]
NewValues(branchNames) == [i \in DOMAIN branchNames |-> Pending]
Fetches(branchNames) == {<<"fetch", branchNames[i]>> : i \in DOMAIN branchNames}

\* Mutant: a value is stored in the first free slot, i.e. in completion order.
SettleInCompletionOrder(values, i, v) ==
    LET k == CHOOSE j \in DOMAIN values :
                 values[j] = Pending /\ \A h \in 1..(j - 1) : values[h] # Pending
    IN [values EXCEPT ![k] = v]
\* Promise.all stores the value of the i-th promise at index i.
Settle(values, i, v) == [values EXCEPT ![i] = v]

\* Mutant: a rejected lookup is not noticed.
LookupRejectedNever(tasks) == FALSE
\* Promise.all of getBranchDates rejects as soon as one callback throws.
LookupRejected(tasks) == \E i \in DOMAIN tasks : tasks[i].at = "failed"
LookupsFulfilled(tasks) == \A i \in DOMAIN tasks : tasks[i].at = "done"

\* Mutant: a failed deletion is not noticed.
DeleteRejectedNever(tasks) == FALSE
\* Promise.all of deleteBranches rejects as soon as one deleteBranch throws.
DeleteRejected(tasks) == \E i \in DOMAIN tasks : tasks[i] = "failed"
DeletesFulfilled(tasks) == \A i \in DOMAIN tasks : tasks[i] = "done"

\* Whether a listing names one of the protected branches.
Protected(branchNames) ==
    \E i \in DOMAIN branchNames :
        branchNames[i] \in {main, master, staging, production}

Init ==
    /\ PipeInit
    /\ pc = "prune"
    /\ fn = "none"
    /\ arg = <<>>
    /\ ret = <<>>

\* The rejection reaches the catch of line 242: process.exit(1).
Abort ==
    /\ pc' = "exited"
    /\ exitCode' = CatchExitCode

\* line 31
PruneRemote ==
    /\ pc = "prune"
    /\ issued' = issued \cup {<<"prune">>}
    /\ \E ok \in BOOLEAN :
          IF ok THEN pc' = "listRemote" /\ exitCode' = exitCode ELSE Abort
    /\ UNCHANGED <<remoteBranchNames, mergedBranchNames, remoteTasks,
                   remoteBranchesWithDates, mergedTasks, mergedValues,
                   staleBranchesToDelete, mergedBranchesToDelete, userResponse,
                   deleteTasks, remoteDeleted, promptShown, doneLogged, raced,
                   sawProtected, pureVars>>

\* line 33
ListRemote ==
    /\ pc = "listRemote"
    /\ \E run \in RemoteRuns :
          LET listed == getAllRemoteBranches(run)
          IN IF listed.threw
             THEN Abort /\ UNCHANGED <<remoteBranchNames, sawProtected>>
             ELSE /\ remoteBranchNames' = filterOutKeyBranchNames(listed.value)
                  /\ sawProtected' = Protected(listed.value)
                  /\ pc' = "listMerged"
                  /\ exitCode' = exitCode
    /\ issued' = issued \cup {<<"ls-remote">>}
    /\ UNCHANGED <<mergedBranchNames, remoteTasks, remoteBranchesWithDates,
                   mergedTasks, mergedValues, staleBranchesToDelete,
                   mergedBranchesToDelete, userResponse, deleteTasks,
                   remoteDeleted, promptShown, doneLogged, raced, pureVars>>

\* Lines 38-53, run when the first getBranchDates has resolved to values:
\* the stale set, then the second getBranchDates over names, whose callbacks
\* start their fetches; with no names it resolves at once and the prompt is shown.
AfterRemoteDates(values, names, started) ==
    LET stale == filterToBranchesModifiedSinceDate(values, staleBranchDate)
    IN /\ staleBranchesToDelete' = stale
       /\ mergedTasks' = NewTasks(names)
       /\ mergedValues' = NewValues(names)
       /\ issued' = started \cup Fetches(names)
       /\ IF names = <<>>
          THEN /\ mergedBranchesToDelete' = MergedToDelete(stale, <<>>)
               /\ promptShown' = TRUE
               /\ pc' = "prompt"
          ELSE /\ mergedBranchesToDelete' = mergedBranchesToDelete
               /\ promptShown' = promptShown
               /\ pc' = "datesMerged"

\* lines 34-36; with no remote branch the first getBranchDates resolves at once
ListMerged ==
    /\ pc = "listMerged"
    /\ \E run \in MergedRuns :
          LET listed == getAllMergedRemoteBranches(run)
              names == filterOutKeyBranchNames(listed.value)
              started == issued \cup {<<"branch-merged">>} \cup Fetches(remoteBranchNames)
          IN IF listed.threw
             THEN /\ Abort
                  /\ issued' = issued \cup {<<"branch-merged">>}
                  /\ UNCHANGED <<mergedBranchNames, remoteTasks,
                                 remoteBranchesWithDates, mergedTasks, mergedValues,
                                 staleBranchesToDelete, mergedBranchesToDelete,
                                 promptShown, sawProtected>>
             ELSE /\ mergedBranchNames' = names
                  /\ sawProtected' = (sawProtected \/ Protected(listed.value))
                  /\ remoteTasks' = NewTasks(remoteBranchNames)
                  /\ remoteBranchesWithDates' = NewValues(remoteBranchNames)
                  /\ exitCode' = exitCode
                  /\ IF remoteBranchNames = <<>>
                     THEN AfterRemoteDates(<<>>, names, started)
                     ELSE /\ pc' = "datesRemote"
                          /\ issued' = started
                          /\ UNCHANGED <<mergedTasks, mergedValues,
                                         staleBranchesToDelete,
                                         mergedBranchesToDelete, promptShown>>
    /\ UNCHANGED <<remoteBranchNames, userResponse, deleteTasks, remoteDeleted,
                   doneLogged, raced, pureVars>>

\* A callback's git fetch ends (line 149); on success it starts git show.
FetchEnds(tasks, i, ok) ==
    [tasks EXCEPT ![i].at = IF ok THEN "show" ELSE "failed"]

\* A callback's git show ends with the resolver's outcome (lines 158-175),
\* and the callback goes on from line 118 to its end.
ShowEnds(tasks, i, branchDate) ==
    IF branchDate.threw
    THEN [tasks EXCEPT ![i].at = "failed"]
    ELSE [tasks EXCEPT ![i] = [at |-> "done", date |-> branchDate.value.lastCommitDate]]

Overtakes(tasks, i) == \E j \in 1..(i - 1) : tasks[j].at # "done"

RemoteFetchDone(i) ==
    /\ pc = "datesRemote"
    /\ remoteTasks[i].at = "fetch"
    /\ \E ok \in BOOLEAN :
          /\ remoteTasks' = FetchEnds(remoteTasks, i, ok)
          /\ issued' = IF ok THEN issued \cup {<<"show", remoteBranchNames[i]>>}
                       ELSE issued
    /\ IF LookupRejected(remoteTasks') THEN Abort
       ELSE pc' = pc /\ exitCode' = exitCode
    /\ UNCHANGED <<remoteBranchNames, mergedBranchNames, remoteBranchesWithDates,
                   mergedTasks, mergedValues, staleBranchesToDelete,
                   mergedBranchesToDelete, userResponse, deleteTasks,
                   remoteDeleted, promptShown, doneLogged, raced, sawProtected,
                   pureVars>>

RemoteShowDone(i) ==
    /\ pc = "datesRemote"
    /\ remoteTasks[i].at = "show"
    /\ \E outcome \in ResolverOutcomes :
          LET branchDate == BranchDate(remoteBranchNames[i], outcome)
              values == IF branchDate.threw THEN remoteBranchesWithDates
                        ELSE Settle(remoteBranchesWithDates, i, branchDate.value)
          IN /\ remoteTasks' = ShowEnds(remoteTasks, i, branchDate)
             /\ remoteBranchesWithDates' = values
             /\ raced' = (raced \/ (~ branchDate.threw /\ Overtakes(remoteTasks, i)))
             /\ IF LookupRejected(remoteTasks')
                THEN /\ Abort
                     /\ UNCHANGED <<mergedTasks, mergedValues, staleBranchesToDelete,
                                    mergedBranchesToDelete, promptShown, issued>>
                ELSE IF LookupsFulfilled(remoteTasks')
                THEN /\ AfterRemoteDates(values, mergedBranchNames, issued)
                     /\ exitCode' = exitCode
                ELSE /\ pc' = pc
                     /\ exitCode' = exitCode
                     /\ UNCHANGED <<mergedTasks, mergedValues, staleBranchesToDelete,
                                    mergedBranchesToDelete, promptShown, issued>>
    /\ UNCHANGED <<remoteBranchNames, mergedBranchNames, userResponse,
                   deleteTasks, remoteDeleted, doneLogged, sawProtected, pureVars>>

MergedFetchDone(i) ==
    /\ pc = "datesMerged"
    /\ mergedTasks[i].at = "fetch"
    /\ \E ok \in BOOLEAN :
          /\ mergedTasks' = FetchEnds(mergedTasks, i, ok)
          /\ issued' = IF ok THEN issued \cup {<<"show", mergedBranchNames[i]>>}
                       ELSE issued
    /\ IF LookupRejected(mergedTasks') THEN Abort
       ELSE pc' = pc /\ exitCode' = exitCode
    /\ UNCHANGED <<remoteBranchNames, mergedBranchNames, remoteTasks,
                   remoteBranchesWithDates, mergedValues, staleBranchesToDelete,
                   mergedBranchesToDelete, userResponse, deleteTasks,
                   remoteDeleted, promptShown, doneLogged, raced, sawProtected,
                   pureVars>>

\* When the last lookup of the second pass is done, lines 45-53 run: the
\* merged set is computed and waitForUserToAccept prints and asks.
MergedShowDone(i) ==
    /\ pc = "datesMerged"
    /\ mergedTasks[i].at = "show"
    /\ \E outcome \in ResolverOutcomes :
          LET branchDate == BranchDate(mergedBranchNames[i], outcome)
              values == IF branchDate.threw THEN mergedValues
                        ELSE Settle(mergedValues, i, branchDate.value)
          IN /\ mergedTasks' = ShowEnds(mergedTasks, i, branchDate)
             /\ mergedValues' = values
             /\ raced' = (raced \/ (~ branchDate.threw /\ Overtakes(mergedTasks, i)))
             /\ IF LookupRejected(mergedTasks')
                THEN /\ Abort
                     /\ UNCHANGED <<mergedBranchesToDelete, promptShown>>
                ELSE IF LookupsFulfilled(mergedTasks')
                THEN /\ mergedBranchesToDelete' =
                            MergedToDelete(staleBranchesToDelete, values)
                     /\ promptShown' = TRUE
                     /\ pc' = "prompt"
                     /\ exitCode' = exitCode
                ELSE /\ pc' = pc
                     /\ exitCode' = exitCode
                     /\ UNCHANGED <<mergedBranchesToDelete, promptShown>>
    /\ UNCHANGED <<remoteBranchNames, mergedBranchNames, remoteTasks,
                   remoteBranchesWithDates, staleBranchesToDelete, userResponse,
                   deleteTasks, issued, remoteDeleted, doneLogged, sawProtected,
                   pureVars>>

\* lines 56-59: the list handed to deleteBranches
DeleteList == staleBranchesToDelete \o mergedBranchesToDelete

\* askQuestion returns response (lines 84-88), then lines 55-64: on 'yes'
\* every deleteBranch starts its git push; otherwise process.exit(0). With
\* nothing to delete, deleteBranches resolves at once and 'done.' is logged.
Answer(response) ==
    /\ pc = "prompt"
    /\ userResponse' = response
    /\ IF Accepts(response)
       THEN /\ deleteTasks' = [i \in DOMAIN DeleteList |-> "inflight"]
            /\ issued' = issued \cup
                   {<<"delete", DeleteList[i].name>> : i \in DOMAIN DeleteList}
            /\ IF DeleteList = <<>>
               THEN doneLogged' = TRUE /\ pc' = "exited" /\ exitCode' = 0
               ELSE doneLogged' = doneLogged /\ pc' = "deleting" /\ exitCode' = exitCode
       ELSE /\ pc' = "exited"
            /\ exitCode' = 0
            /\ UNCHANGED <<deleteTasks, issued, doneLogged>>
    /\ UNCHANGED <<remoteBranchNames, mergedBranchNames, remoteTasks,
                   remoteBranchesWithDates, mergedTasks, mergedValues,
                   staleBranchesToDelete, mergedBranchesToDelete, remoteDeleted,
                   promptShown, raced, sawProtected, pureVars>>

\* One git push origin --delete ends (lines 140-146); a successful one has
\* deleted the branch on origin. rejectOnError makes a failed one throw.
DeleteDone(i) ==
    /\ pc = "deleting"
    /\ deleteTasks[i] = "inflight"
    /\ \E ok \in BOOLEAN :
          /\ deleteTasks' = [deleteTasks EXCEPT ![i] = IF ok THEN "done" ELSE "failed"]
          /\ remoteDeleted' = IF ok THEN remoteDeleted \cup {DeleteList[i].name}
                              ELSE remoteDeleted
    /\ IF DeleteRejected(deleteTasks')
       THEN Abort /\ doneLogged' = doneLogged
       ELSE IF DeletesFulfilled(deleteTasks')
       THEN doneLogged' = TRUE /\ pc' = "exited" /\ exitCode' = 0
       ELSE doneLogged' = doneLogged /\ pc' = pc /\ exitCode' = exitCode
    /\ UNCHANGED <<remoteBranchNames, mergedBranchNames, remoteTasks,
                   remoteBranchesWithDates, mergedTasks, mergedValues,
                   staleBranchesToDelete, mergedBranchesToDelete, userResponse,
                   issued, promptShown, raced, sawProtected, pureVars>>

\* A git push still running when the process exited is not killed by
\* process.exit: it may yet delete its branch, or never do so.
OrphanDeletes(i) ==
    /\ pc = "exited"
    /\ deleteTasks[i] = "inflight"
    /\ deleteTasks' = [deleteTasks EXCEPT ![i] = "orphan-done"]
    /\ remoteDeleted' = remoteDeleted \cup {DeleteList[i].name}
    /\ UNCHANGED <<pc, remoteBranchNames, mergedBranchNames, remoteTasks,
                   remoteBranchesWithDates, mergedTasks, mergedValues,
                   staleBranchesToDelete, mergedBranchesToDelete, userResponse,
                   issued, promptShown, doneLogged, exitCode, raced,
                   sawProtected, pureVars>>

Next ==
    \/ PruneRemote
    \/ ListRemote
    \/ ListMerged
    \/ \E i \in DOMAIN remoteTasks : RemoteFetchDone(i)
    \/ \E i \in DOMAIN remoteTasks : RemoteShowDone(i)
    \/ \E i \in DOMAIN mergedTasks : MergedFetchDone(i)
    \/ \E i \in DOMAIN mergedTasks : MergedShowDone(i)
    \/ \E response \in Responses : Answer(response)
    \/ \E i \in DOMAIN deleteTasks : DeleteDone(i)
    \/ \E i \in DOMAIN deleteTasks : OrphanDeletes(i)

Spec == Init /\ [][Next]_vars

(***************************************************************************)
(* Claims about the pipeline (Spec)                                        *)
(***************************************************************************)
ProtectedNames == {main, master, staging, production}
DeleteIssued == \E c \in issued : c[1] = "delete"
LookupFailed ==
    \/ \E i \in DOMAIN remoteTasks : remoteTasks[i].at = "failed"
    \/ \E i \in DOMAIN mergedTasks : mergedTasks[i].at = "failed"
DeleteFailed == \E i \in DOMAIN deleteTasks : deleteTasks[i] = "failed"
Count(seq, x) == Cardinality({i \in DOMAIN seq : seq[i] = x})
CountName(branches, name) == Cardinality({i \in DOMAIN branches : branches[i].name = name})

\* C1: whenever the confirmation prompt has returned anything but exactly
\* "yes", no git push origin --delete is issued, nothing is deleted and the
\* process has exited with code 0; and a deletion command is issued only
\* after the prompt was shown and returned exactly "yes".
C1_OnlyYesDeletes ==
    /\ (userResponse # Undefined /\ userResponse # yes) =>
           (~ DeleteIssued /\ remoteDeleted = {} /\ pc = "exited" /\ exitCode = 0)
    /\ (DeleteIssued \/ remoteDeleted # {}) => (promptShown /\ userResponse = yes)

\* C1 witness: the user typed " yes" with branches listed for deletion, and
\* the run ended with code 0 without deleting.
C1_Witness ==
    /\ userResponse = <<" ", "y", "e", "s">>
    /\ DeleteList # <<>>
    /\ exitCode = 0

\* C2: no protected name (main, master, staging, production) is ever in the
\* stale set or in the merged set, is ever looked up, or is ever the target
\* of a deletion command.
C2_ProtectedNeverClassified ==
    \A p \in ProtectedNames :
        /\ p \notin Names(staleBranchesToDelete)
        /\ p \notin Names(mergedBranchesToDelete)
        /\ <<"fetch", p>> \notin issued
        /\ <<"show", p>> \notin issued
        /\ <<"delete", p>> \notin issued
        /\ p \notin remoteDeleted

\* C2 witness: a listing named a protected branch and the run went on to
\* delete a branch.
C2_Witness == sawProtected /\ remoteDeleted # {} /\ staleBranchesToDelete # <<>>

\* C3: the stale set and the merged set share no branch name; once the
\* prompt is shown, a branch of both listings whose commit date is older
\* than the stale threshold is in the stale set, not in the merged set, and
\* the list handed to deleteBranches names it only as often as the stale set.
C3_StaleAndMergedDisjoint ==
    /\ Names(staleBranchesToDelete) \cap Names(mergedBranchesToDelete) = {}
    /\ promptShown =>
           \A i \in DOMAIN remoteBranchNames, j \in DOMAIN mergedBranchNames :
               (/\ remoteBranchNames[i] = mergedBranchNames[j]
                /\ remoteTasks[i].date < staleBranchDate) =>
                   /\ remoteBranchNames[i] \in Names(staleBranchesToDelete)
                   /\ remoteBranchNames[i] \notin Names(mergedBranchesToDelete)
                   /\ CountName(DeleteList, remoteBranchNames[i]) =
                          CountName(staleBranchesToDelete, remoteBranchNames[i])

\* C3 witness: at the gate, a branch of both listings is stale, and its
\* second lookup found it old enough for the merged set as well.
C3_Witness ==
    /\ pc = "prompt"
    /\ \E i \in DOMAIN staleBranchesToDelete, j \in DOMAIN mergedValues :
           /\ staleBranchesToDelete[i].name = mergedValues[j].name
           /\ mergedValues[j].lastCommitDate < mergedBranchDate

\* C4: once a commit-date lookup of either pass has failed, the run has
\* ended with exit code 1, the prompt was not shown, no deletion command was
\* issued and nothing was deleted.
C4_LookupFailureAborts ==
    LookupFailed =>
        /\ pc = "exited"
        /\ exitCode = 1
        /\ ~ promptShown
        /\ userResponse = Undefined
        /\ ~ DeleteIssued
        /\ remoteDeleted = {}

\* C4 witness: a lookup failed after another lookup of its pass had
\* succeeded, or while another was still running its git show.
C4_Witness ==
    \/ \E i, j \in DOMAIN remoteTasks :
           remoteTasks[i].at = "failed" /\ remoteTasks[j].at = "done"
    \/ \E i, j \in DOMAIN mergedTasks :
           mergedTasks[i].at = "failed" /\ mergedTasks[j].at = "show"

\* C5: on "yes" every deletion command is started in the same step; once a
\* deletion has failed the run has ended with exit code 1 and 'done.' is not
\* logged; a branch once deleted stays deleted; and from the moment the
\* deletions are started no further command is issued.
C5_DeleteFailureAborts ==
    [][/\ (pc = "prompt" /\ pc' = "deleting") =>
              /\ DOMAIN deleteTasks' = DOMAIN DeleteList
              /\ \A i \in DOMAIN DeleteList :
                     /\ deleteTasks'[i] = "inflight"
                     /\ <<"delete", DeleteList[i].name>> \in issued'
       /\ DeleteFailed' => (pc' = "exited" /\ exitCode' = 1 /\ ~ doneLogged')
       /\ remoteDeleted \subseteq remoteDeleted'
       /\ pc \in {"deleting", "exited"} => issued' = issued]_vars

\* C5 witness: the run ended with code 1 after one deletion completed, one
\* failed, and one that was in flight at the failure took effect afterwards.
C5_Witness ==
    /\ exitCode = 1
    /\ \E i, j, k \in DOMAIN deleteTasks :
           /\ deleteTasks[i] = "done"
           /\ deleteTasks[j] = "failed"
           /\ deleteTasks[k] = "orphan-done"

\* The records of a pass in the order of its branch names, each with the
\* date its own lookup found.
InOrder(branchNames, tasks) ==
    [i \in DOMAIN branchNames |->
        [name |-> branchNames[i], lastCommitDate |-> tasks[i].date]]

\* C10: whatever order the lookups of a pass complete in, once all have
\* succeeded the records are in the order of the branch names, and the stale
\* and merged sets are those computed from the records in that order.
C10_OrderIndependentOfInterleaving ==
    /\ (DOMAIN remoteTasks = DOMAIN remoteBranchNames /\ LookupsFulfilled(remoteTasks)) =>
           /\ remoteBranchesWithDates = InOrder(remoteBranchNames, remoteTasks)
           /\ staleBranchesToDelete =
                  filterToBranchesModifiedSinceDate(
                      InOrder(remoteBranchNames, remoteTasks), staleBranchDate)
    /\ (DOMAIN mergedTasks = DOMAIN mergedBranchNames /\ LookupsFulfilled(mergedTasks)
            /\ promptShown) =>
           /\ mergedValues = InOrder(mergedBranchNames, mergedTasks)
           /\ mergedBranchesToDelete =
                  MergedToDelete(staleBranchesToDelete,
                                 InOrder(mergedBranchNames, mergedTasks))

\* C10 witness: at the gate, after a lookup overtook an earlier one, the
\* stale set holds two different branches with equal commit dates.
C10_Witness ==
    /\ raced
    /\ pc = "prompt"
    /\ \E i, j \in DOMAIN staleBranchesToDelete :
           /\ staleBranchesToDelete[i].name # staleBranchesToDelete[j].name
           /\ staleBranchesToDelete[i].lastCommitDate =
                  staleBranchesToDelete[j].lastCommitDate

(***************************************************************************)
(* Claims about the Branch Lister (SpecLister)                             *)
(***************************************************************************)
ListerCalled == fn \in {"getAllRemoteBranches", "getAllMergedRemoteBranches"}
NonEmptyLines(stdout) == SelectSeq(Split(stdout), isTruthy)
IsSuffix(suffix, text) ==
    /\ Len(suffix) <= Len(text)
    /\ SubSeq(text, Len(text) - Len(suffix) + 1, Len(text)) = suffix

\* <hash> <whitespace> refs/heads/<branch>, the branch on one line
HasRemoteShape(line) ==
    \E w \in 1..Len(line), s \in 1..Len(line) :
        /\ w + s + Len(RefsHeads) < Len(line)
        /\ \A i \in 1..w : line[i] \in WordChars
        /\ \A i \in (w + 1)..(w + s) : line[i] \in WhiteSpaceChars
        /\ SubSeq(line, w + s + 1, w + s + Len(RefsHeads)) = RefsHeads
        /\ \A i \in (w + s + Len(RefsHeads) + 1)..Len(line) :
               line[i] \notin LineTerminators
\* <remote>/<branch>
HasMergedShape(line) ==
    \E p \in 2..(Len(line) - 1) :
        /\ line[p] = "/"
        /\ \A i \in 1..(p - 1) : line[i] # "/"
        /\ \A i \in (p + 1)..Len(line) : line[i] \notin LineTerminators
HasShape(kind, line) ==
    IF kind = "remote" THEN HasRemoteShape(line) ELSE HasMergedShape(line)
ShapedLines(kind, lines) == {k \in DOMAIN lines : HasShape(kind, lines[k])}

\* C6 as stated: a non-empty line that does not have the expected shape is
\* dropped, and the lister returns the names of the remaining lines.
C6_MalformedLineDropped ==
    (ListerCalled /\ arg.run.ok) =>
        LET lines == NonEmptyLines(arg.run.stdout)
        IN /\ ~ ret.threw
           /\ Len(ret.value) = Cardinality(ShapedLines(arg.kind, lines))

\* C6 as amended: the lister throws exactly when its command failed or a
\* non-empty line of the output does not have the expected shape; otherwise
\* it returns one name per non-empty line, in order, each the line's end.
\* Only empty lines are dropped.
C6_MalformedLineThrows ==
    ListerCalled =>
        LET lines == NonEmptyLines(arg.run.stdout)
            malformed == ShapedLines(arg.kind, lines) # DOMAIN lines
        IN /\ ret.threw <=> (~ arg.run.ok \/ malformed)
           /\ ~ ret.threw =>
                  /\ Len(ret.value) = Len(lines)
                  /\ \A k \in DOMAIN lines :
                         ret.value[k] # <<>> /\ IsSuffix(ret.value[k], lines[k])

\* C6 witness: the command succeeded, its output holds a well-shaped line
\* and a malformed one, and the lister threw.
C6_Witness ==
    /\ ListerCalled
    /\ arg.run.ok
    /\ ret.threw
    /\ LET lines == NonEmptyLines(arg.run.stdout)
       IN ShapedLines(arg.kind, lines) \notin {{}, DOMAIN lines}

(***************************************************************************)
(* Claims about filterToBranchesModifiedSinceDate (SpecFilter)             *)
(***************************************************************************)
FilterCalled == fn = "filterToBranchesModifiedSinceDate"
WithDate(branches, d) ==
    LET Has(branch) == branch.lastCommitDate = d IN SelectSeq(branches, Has)

\* C7: the result holds each input record as often as the input does when
\* the record's commit date is strictly less than the threshold, and not at
\* all otherwise (a date equal to the threshold is excluded).
C7_StrictlyOlderExactly ==
    FilterCalled =>
        /\ \A r \in FilterRecords :
               Count(ret, r) = IF r.lastCommitDate < arg.modifiedDate
                               THEN Count(arg.branchesWithDates, r) ELSE 0
        /\ \A i \in DOMAIN ret : ret[i] \in FilterRecords

\* C7 witness: the input holds a record dated at the threshold, an older and
\* a newer one, and the result is not empty.
C7_Witness ==
    /\ FilterCalled
    /\ ret # <<>>
    /\ \E i, j, k \in DOMAIN arg.branchesWithDates :
           /\ arg.branchesWithDates[i].lastCommitDate = arg.modifiedDate
           /\ arg.branchesWithDates[j].lastCommitDate < arg.modifiedDate
           /\ arg.branchesWithDates[k].lastCommitDate > arg.modifiedDate

\* C8: the result is in ascending order of commit date, records of equal
\* date are in the order the input has them, and B1(T), B2(T), B3(T-1)
\* against a threshold newer than T give [B3, B1, B2].
C8_AscendingAndStable ==
    FilterCalled =>
        /\ \A i, j \in DOMAIN ret :
               i < j => ret[i].lastCommitDate <= ret[j].lastCommitDate
        /\ \A d \in 1..MaxDate :
               WithDate(ret, d) \in {<<>>, WithDate(arg.branchesWithDates, d)}
        /\ Len(ret) <= Len(arg.branchesWithDates)
        /\ (/\ arg.branchesWithDates =
                   <<[name |-> B1, lastCommitDate |-> 2],
                     [name |-> B2, lastCommitDate |-> 2],
                     [name |-> B3, lastCommitDate |-> 1]>>
            /\ arg.modifiedDate > 2) =>
               ret = <<[name |-> B3, lastCommitDate |-> 1],
                       [name |-> B1, lastCommitDate |-> 2],
                       [name |-> B2, lastCommitDate |-> 2]>>

\* C8 witness: the filter was applied to B1(T), B2(T), B3(T-1) with a
\* threshold newer than T.
C8_Witness ==
    /\ FilterCalled
    /\ arg.modifiedDate = 3
    /\ arg.branchesWithDates =
           <<[name |-> B1, lastCommitDate |-> 2],
             [name |-> B2, lastCommitDate |-> 2],
             [name |-> B3, lastCommitDate |-> 1]>>
    /\ Len(ret) = 3

(***************************************************************************)
(* Claims about the Commit-Date Resolver (SpecDate)                        *)
(***************************************************************************)
DateChecked == fn = "getBranchDates"
\* The output text converts to a positive whole number of seconds.
PositiveInteger(num) == num.kind = "fin" /\ num.milli > 0 /\ num.milli % 1000 = 0

\* C9 as stated: when both commands succeed and the output does not parse
\* as a positive integer the lookup throws, and every record has a positive
\* integer-second timestamp.
C9_NonPositiveIntegerFatal ==
    (DateChecked /\ arg.fetch.ok /\ arg.show.ok) =>
        LET num == StringToNumber(arg.show.stdout)
        IN /\ ~ PositiveInteger(num) => ret.threw
           /\ ~ ret.threw =>
                  ret.value.lastCommitDate > 0 /\ ret.value.lastCommitDate % 1000 = 0

\* C9 as amended: the lookup throws exactly when a command failed, the
\* output is not numeric, or its number is zero or not finite (empty,
\* "0", "-0", non-numeric, Infinity); negative and fractional numbers are
\* accepted. Every record has a valid non-zero timestamp, that number of
\* seconds.
C9_NonNumericOrZeroFatal ==
    DateChecked =>
        LET num == StringToNumber(arg.show.stdout)
        IN /\ ret.threw <=>
                  \/ ~ arg.fetch.ok
                  \/ ~ arg.show.ok
                  \/ num.kind # "fin"
                  \/ num.milli = 0
           /\ ~ ret.threw =>
                  /\ ret.value.name = arg.branchName
                  /\ ret.value.lastCommitDate = num.milli
                  /\ ret.value.lastCommitDate # 0

\* C9 witness: both commands succeeded, the output was "0" on a line of its
\* own, and the lookup threw.
C9_Witness ==
    /\ DateChecked
    /\ arg.fetch.ok
    /\ arg.show.ok
    /\ arg.show.stdout = <<"0", NL>>
    /\ ret.threw

====
